---- MODULE Spec2Model ----
(***************************************************************************)
(* A state-machine model of DrawPass (src/src/mol-canvas3d/passes/draw.ts): *)
(* construction, setSize, getColorTarget and the per-frame render()         *)
(* pipeline with its two compositing strategies.                            *)
(*                                                                          *)
(* The GPU is modelled by the framebuffer that is bound, the depth          *)
(* attachment of the two framebuffers the pass re-attaches, what every      *)
(* texture holds, and the log of the operations issued in the current view. *)
(***************************************************************************)
EXTENDS Integers, Sequences, FiniteSets, TLC

\* Largest width and height a caller passes to the constructor or setSize.
MaxDim == 2

Dims == 1..MaxDim
Sizes == Dims \X Dims
NoSize == <<0, 0>>

(***************************************************************************)
(* Names of the objects the pass owns or is wired to.                       *)
(***************************************************************************)
Framebuffers ==
    {"drawTarget", "colorTarget", "depthTarget", "depthTargetPrimitives",
     "depthTargetVolumes", "postprocessing.target", "fxaa.target", "wboit"}

Textures ==
    {"drawingBuffer", "colorTarget.texture", "depthTexture",
     "depthTexturePrimitives", "depthTextureVolumes",
     "postprocessing.target.texture", "fxaa.target.texture", "wboit.textures"}

\* The color texture a framebuffer writes to.
ColorTex(fb) ==
    CASE fb = "drawTarget" -> "drawingBuffer"
      [] fb = "colorTarget" -> "colorTarget.texture"
      [] fb = "depthTarget" -> "depthTexture"
      [] fb = "depthTargetPrimitives" -> "depthTexturePrimitives"
      [] fb = "depthTargetVolumes" -> "depthTextureVolumes"
      [] fb = "postprocessing.target" -> "postprocessing.target.texture"
      [] fb = "fxaa.target" -> "fxaa.target.texture"
      [] fb = "wboit" -> "wboit.textures"

\* Everything that has dimensions and must follow a resize.
Sized ==
    {"colorTarget", "depthTarget", "depthPrimitives", "depthVolumes",
     "depthMerge.uTexSize", "copyFboTarget.uTexSize",
     "copyFboPostprocessing.uTexSize", "wboit", "postprocessing", "fxaa"}

\* The objects whose identity the dependent stages hold on to.
Owned ==
    {"colorTarget", "depthTarget", "depthTexture", "depthTexturePrimitives",
     "depthTextureVolumes", "postprocessing.target"}

\* The texture references captured by the depth-merge and copy renderables.
RefTarget ==
    [r \in {"depthMerge.tDepthPrimitives", "depthMerge.tDepthVolumes",
            "copyFboTarget.tColor", "copyFboTarget.tDepth",
            "copyFboPostprocessing.tColor", "copyFboPostprocessing.tDepth"} |->
        CASE r = "depthMerge.tDepthPrimitives" -> "depthTexturePrimitives"
          [] r = "depthMerge.tDepthVolumes" -> "depthTextureVolumes"
          [] r = "copyFboTarget.tColor" -> "colorTarget"
          [] r = "copyFboTarget.tDepth" -> "depthTarget"
          [] r = "copyFboPostprocessing.tColor" -> "postprocessing.target"
          [] r = "copyFboPostprocessing.tDepth" -> "depthTarget"]

VARIABLES
    packedDepth,   \* this.packedDepth, fixed at construction
    wboit,         \* this.wboit: [exists, enabled]
    size,          \* the dimensions of every member of Sized
    objId,         \* the identity of every member of Owned
    refs,          \* the identities the renderables captured at construction
    lastCall,      \* the last call of the public interface:
                   \* [name, to, changed, calls]; for the constructor and
                   \* setSize, the size asked for and the resize calls made
    pc,            \* position of render() / _render()
    frame,         \* the arguments of the render() call in progress
    view,          \* which camera _render is running for
    gpu,           \* [bound, depthAtt, gl, content, log]
    frameLog,      \* the top-level steps of the render() call in progress
    outlines,      \* the outline shader: its inputs and what it has written
    ntc            \* an NtCTubeSegmentsIterator, its unit and what it returned

cfgVars == <<packedDepth, wboit, objId, refs>>
sizeVars == <<size, lastCall>>
\* What belongs to other components than the draw pass.
elsewhere == <<outlines, ntc>>
vars == <<packedDepth, wboit, size, objId, refs, lastCall, pc, frame, view,
          gpu, frameLog, outlines, ntc>>

(***************************************************************************)
(* The outline shader (outlines.frag.ts).  Depths are counted in hundredths *)
(* of the unit interval, view-space Z in fractions <<numerator,             *)
(* denominator>> with a positive denominator, so that the arithmetic of the *)
(* shader is exact.                                                         *)
(***************************************************************************)
\* The depth 1.0 (50), in hundredths.
FarDepth == 100
\* The threshold of isBackground, 0.99 (37), in hundredths.
BackgroundDepth == 99

\* The uniforms uNear, uFar (9-10) and uTexSize (7, taken square).
uNear == 1
uFar == 10
uTexSize == 3

\* The value given to uMaxPossibleViewZDiff (12): between the view-space
\* distances of the two geometry depths under the two reconstructions.
MaxZDiff == 7

Coords == 0 .. (uTexSize - 1)
Pixels == Coords \X Coords
\* The depths a texel of tDepth holds: two of geometry, one of background.
Depths == {30, 98, BackgroundDepth}

Frac(n, d) == IF d < 0 THEN <<-n, -d>> ELSE <<n, d>>
Abs(n) == IF n < 0 THEN -n ELSE n
\* abs(a - b) > m for fractions a, b and an integer m.
DiffExceeds(a, b, m) == Abs(a[1] * b[2] - b[1] * a[2]) > m * a[2] * b[2]

\* 16-18
perspectiveDepthToViewZ(invClipZ, near, far) ==
    Frac(FarDepth * near * far, (far - near) * invClipZ - FarDepth * far)

\* 20-22
orthographicDepthToViewZ(linearClipZ, near, far) ==
    Frac(linearClipZ * (near - far) - FarDepth * near, FarDepth)

\* 24-30
getViewZ(dOrthographic, depth) ==
    IF dOrthographic THEN orthographicDepthToViewZ(depth, uNear, uFar)
                     ELSE perspectiveDepthToViewZ(depth, uNear, uFar)

\* texture2D(tDepth, coords) at a texel centre: coordinates outside the
\* texture are clamped to its edge.
ClampCoord(c) == IF c < 0 THEN 0 ELSE IF c > uTexSize - 1 THEN uTexSize - 1 ELSE c
Texel(p, offset) == <<ClampCoord(p[1] + offset[1]), ClampCoord(p[2] + offset[2])>>

\* 32-34
getDepth(tDepth, coords) == tDepth[coords]

\* Variant: a depth of exactly 0.99 is not background.
isBackgroundAbove(depth) == depth > BackgroundDepth

\* 36-38
isBackground(depth) == depth >= BackgroundDepth

\* 41
backgroundViewZ(m) == Frac(uFar + 3 * m, 1)

\* 47, 56: the view-space Z the shader works with for a depth.
ViewZ(u, depth) ==
    IF isBackground(depth) THEN backgroundViewZ(u.uMaxPossibleViewZDiff)
                           ELSE getViewZ(u.dOrthographic, depth)

\* Variant: every qualifying sample replaces the best depth, nearest or not.
OutlineTestLatest(selfViewZ, sampleViewZ, selfDepth, sampleDepth, bestDepth, m) ==
    /\ DiffExceeds(selfViewZ, sampleViewZ, m)
    /\ selfDepth > sampleDepth

\* 58: the condition under which a sample marks the pixel.
OutlineTest(selfViewZ, sampleViewZ, selfDepth, sampleDepth, bestDepth, m) ==
    /\ DiffExceeds(selfViewZ, sampleViewZ, m)
    /\ selfDepth > sampleDepth
    /\ sampleDepth <= bestDepth

\* Variant: the pixel starts out marked.
OutlineStartMarked == [outline |-> 0, bestDepth |-> FarDepth]

\* 49-50: outline = 1.0, bestDepth = 1.0.
OutlineStart == [outline |-> 1, bestDepth |-> FarDepth]

\* 52-53: the offsets in the order the two loops visit them, y outermost.
Offsets ==
    <<<<-1, -1>>, <<0, -1>>, <<1, -1>>,
      <<-1, 0>>, <<0, 0>>, <<1, 0>>,
      <<-1, 1>>, <<0, 1>>, <<1, 1>>>>

\* 52-63: the first k iterations of the loop over the offsets in `order`,
\* for the fragment at pixel p with the selfDepth and selfViewZ of 46-47.
RECURSIVE Loop(_, _, _, _, _, _)
Loop(u, p, selfDepth, selfViewZ, order, k) ==
    IF k = 0 THEN OutlineStart
    ELSE LET acc == Loop(u, p, selfDepth, selfViewZ, order, k - 1)
             sampleDepth == getDepth(u.tDepth, Texel(p, order[k]))
         IN  IF OutlineTest(selfViewZ, ViewZ(u, sampleDepth), selfDepth, sampleDepth,
                            acc.bestDepth, u.uMaxPossibleViewZDiff)
             THEN [outline |-> 0, bestDepth |-> sampleDepth]
             ELSE acc

\* 40-66 with the window visited in `order`: (outline, bestDepth) of the
\* fragment at pixel p, before the packing into gl_FragColor.
mainIn(u, p, order) ==
    Loop(u, p, getDepth(u.tDepth, p), ViewZ(u, getDepth(u.tDepth, p)), order, Len(order))

\* 40-66
main(u, p) == mainIn(u, p, Offsets)

\* The shader is not in use: nothing but a cleared target.
OutlinesIdle ==
    [tDepth |-> [p \in Pixels |-> FarDepth], dOrthographic |-> FALSE,
     uMaxPossibleViewZDiff |-> 0, drawn |-> FALSE,
     fragColor |-> [p \in Pixels |-> OutlineStart]]

(***************************************************************************)
(* NtCTubeSegmentsIterator (ntc-tube/util.ts).  A unit is a sequence of     *)
(* chains, each given by its number of residues; the residues are numbered  *)
(* through the unit in order, and 0 stands for undefined.                   *)
(***************************************************************************)
MaxChains == 3
MaxResidues == 2
NoResidue == 0

Units == UNION {[1..k -> 1..MaxResidues] : k \in 1..MaxChains}

\* The number of residues in the first c chains.
Upto(chains, c) ==
    LET sum[i \in 0..Len(chains)] == IF i = 0 THEN 0 ELSE sum[i - 1] + chains[i]
    IN  sum[c]
ResidueCount(chains) == Upto(chains, Len(chains))
ResiduesOf(chains) == 1..ResidueCount(chains)
FirstOf(chains, c) == Upto(chains, c - 1) + 1
LastOf(chains, c) == Upto(chains, c)
ChainOf(chains, r) == CHOOSE c \in DOMAIN chains : FirstOf(chains, c) <= r /\ r <= LastOf(chains, c)

\* Segmentation.transientSegments(segments, elements): an iterator over the
\* segments first..last that has returned nothing yet.
TransientSegments(first, last) == [next |-> first, end |-> last, value |-> 0]
\* SegmentIterator.hasNext
ItHasNext(it) == it.next <= it.end
\* SegmentIterator.move(): the next segment; on an exhausted iterator the
\* result is what it returned last or nothing, and the iterator stays exhausted.
ItMove(it, undef) ==
    IF ItHasNext(it) THEN [it EXCEPT !.value = it.next, !.next = @ + 1]
    ELSE [it EXCEPT !.value = IF undef THEN 0 ELSE @]
\* SegmentIterator.setSegment(chain): restricts the iterator to the residues
\* of the chain.
SetSegment(it, chains, c) ==
    IF c = 0 THEN [it EXCEPT !.next = 1, !.end = 0]
    ELSE [it EXCEPT !.next = FirstOf(chains, c), !.end = LastOf(chains, c)]

\* DnatcoUtil.copyResidue(r): a copy of the residue, undefined for undefined.
copyResidue(r) == IF r = NoResidue THEN NoResidue ELSE r

\* this.chainIt.move() and this.residueIt.move(), each recorded with the
\* hasNext the iterator had when it was called.
ChainItMove(n, undef) ==
    [n EXCEPT !.chainIt = ItMove(@, undef),
              !.calls = @ \cup {[it |-> "chainIt", hasNext |-> ItHasNext(n.chainIt)]}]
ResidueItMove(n, undef) ==
    [n EXCEPT !.residueIt = ItMove(@, undef),
              !.calls = @ \cup {[it |-> "residueIt", hasNext |-> ItHasNext(n.residueIt)]}]

\* 49-58: a residue has an element that is one of the unit's gap elements.
hasGapElements(r, n) == r \in n.gaps

\* 32-47: the residue each point is read from; p_1 is a vector of the module
\* and keeps what it held when there is no previous residue.
getPoints(n, r0, r1, r2) ==
    [p_1 |-> IF r0 # NoResidue THEN r0 ELSE n.p_1,
     p0 |-> IF r0 # NoResidue THEN r0 ELSE r1,
     p1 |-> r1, p2 |-> r1, p3 |-> r2, p4 |-> r2, pP |-> r2]

NoSegment ==
    [defined |-> FALSE, r0 |-> 0, r1 |-> 0, r2 |-> 0, stepIdx |-> 0, altId0 |-> 0,
     followsGap |-> FALSE, firstInChain |-> FALSE, capEnd |-> FALSE,
     points |-> [p_1 |-> 0, p0 |-> 0, p1 |-> 0, p2 |-> 0, p3 |-> 0, p4 |-> 0, pP |-> 0]]

\* 93-116: the step that starts at r1 is the one numbered r1; its alternate
\* location and insertion code are remembered for the next segment.
toSegment(n, r0, r1, r2) ==
    IF r1 \notin n.data.steps
    THEN [n EXCEPT !.segment = NoSegment]
    ELSE LET points == getPoints(n, r0, r1, r2)
         IN  [n EXCEPT !.altIdOne = r1,
                       !.p_1 = points.p_1,
                       !.segment =
                           [defined |-> TRUE, r0 |-> r0, r1 |-> r1, r2 |-> r2,
                            stepIdx |-> r1, altId0 |-> n.altIdOne,
                            followsGap |-> /\ r0 # NoResidue
                                           /\ hasGapElements(r0, n)
                                           /\ hasGapElements(r1, n),
                            firstInChain |-> r0 = NoResidue,
                            capEnd |-> \/ ~ItHasNext(n.residueIt)
                                       \/ hasGapElements(r2, n),
                            points |-> points]]

\* 85-91
moveStep(n, undef) ==
    LET a == [n EXCEPT !.residuePrev = copyResidue(n.residueOne)]
        b == [a EXCEPT !.residueOne = copyResidue(a.residueTwo)]
        m == ResidueItMove(b, undef)
        c == [m EXCEPT !.residueTwo = copyResidue(m.residueIt.value)]
    IN  toSegment(c, c.residuePrev, c.residueOne, c.residueTwo)

\* 123-125 and 147-148: the residue iterator is set on the next chain and its
\* first residue is taken, if there is one.
NextChain(n, undef) ==
    LET a == ChainItMove(n, undef)
        b == [a EXCEPT !.residueIt = SetSegment(@, a.chains, a.chainIt.value)]
    IN  IF ItHasNext(b.residueIt)
        THEN LET c == ResidueItMove(b, undef)
             IN  [c EXCEPT !.residueTwo = c.residueIt.value]
        ELSE b

\* 118-132: the iterator after construction over a unit.
Constructed(chains, gaps, data) ==
    LET n == [chains |-> chains, gaps |-> gaps, data |-> data,
              chainIt |-> TransientSegments(1, Len(chains)),
              residueIt |-> TransientSegments(1, ResidueCount(chains)),
              residuePrev |-> NoResidue, residueOne |-> NoResidue,
              residueTwo |-> NoResidue, altIdOne |-> 0, p_1 |-> 0,
              segment |-> NoSegment, calls |-> {}, switched |-> FALSE, moves |-> 0]
    IN  IF ItHasNext(n.chainIt) THEN NextChain(n, FALSE) ELSE n

\* 134-140
hasNext(n) ==
    IF ~n.data.present THEN FALSE
    ELSE IF ItHasNext(n.residueIt) THEN TRUE ELSE ItHasNext(n.chainIt)

\* 142-152
move(n, undef) ==
    IF ItHasNext(n.residueIt)
    THEN moveStep([n EXCEPT !.switched = FALSE, !.moves = @ + 1], undef)
    ELSE moveStep(NextChain([n EXCEPT !.residuePrev = NoResidue,
                                      !.switched = TRUE, !.moves = @ + 1], undef),
                  undef)

\* No iterator has been constructed.
NtcIdle == [data |-> [present |-> FALSE, steps |-> {}]]

(***************************************************************************)
(* External stages whose code is outside the source files at hand.         *)
(***************************************************************************)
\* WboitPass.enabled: requested at construction and supported by the hardware.
WboitPassEnabled(requested, supported) == requested /\ supported

\* PostprocessingPass.isEnabled(props) and FxaaPass.isEnabled(props).
PostprocessingIsEnabled(props) == props.postprocessing
FxaaIsEnabled(props) == props.antialiasing

\* The stages built from the pass size their targets after its color target.
StageSize(colorSize) == colorSize

(***************************************************************************)
(* get wboitEnabled                                                         *)
(***************************************************************************)
wboitEnabled == wboit.exists /\ wboit.enabled

(***************************************************************************)
(* constructor                                                              *)
(***************************************************************************)
ConstructedSize(w, h, enableWboit) ==
    LET own == [k \in {"colorTarget", "depthTarget", "depthPrimitives",
                       "depthVolumes"} |-> <<w, h>>]
    IN  [k \in Sized |->
            CASE k \in DOMAIN own -> own[k]
              [] k = "depthMerge.uTexSize" -> own["depthPrimitives"]
              [] k = "copyFboTarget.uTexSize" -> own["colorTarget"]
              [] k = "copyFboPostprocessing.uTexSize" -> StageSize(own["colorTarget"])
              [] k = "wboit" -> IF enableWboit THEN <<w, h>> ELSE NoSize
              [] k = "postprocessing" -> StageSize(own["colorTarget"])
              [] k = "fxaa" -> StageSize(own["colorTarget"])]

\* Every owned object is created once, in the constructor.
ConstructedId ==
    [o \in Owned |->
        CASE o = "colorTarget" -> 1
          [] o = "depthTarget" -> 2
          [] o = "depthTexture" -> 2
          [] o = "depthTexturePrimitives" -> 3
          [] o = "depthTextureVolumes" -> 4
          [] o = "postprocessing.target" -> 5]

\* What a texture holds from before the current view (possibly nothing).
Old == <<"old", "old">>

\* The capabilities and the write mask _depthMerge sets (173-176).  Each is
\* "on", "off", or "unknown": left by code outside the pass in a state the
\* pass does not determine.
GLFlags == {"BLEND", "DEPTH_TEST", "CULL_FACE", "DEPTH_WRITEMASK"}
UnknownState == [f \in GLFlags |-> "unknown"]

NoFrame ==
    [toDrawingBuffer |-> FALSE, stereo |-> FALSE,
     props |-> [postprocessing |-> FALSE, antialiasing |-> FALSE],
     helper |-> [debug |-> FALSE, handle |-> FALSE, camera |-> FALSE]]

Frames ==
    [toDrawingBuffer : BOOLEAN, stereo : BOOLEAN,
     props : [postprocessing : BOOLEAN, antialiasing : BOOLEAN],
     helper : [debug : BOOLEAN, handle : BOOLEAN, camera : BOOLEAN]]

DrawPassInit ==
    /\ packedDepth \in BOOLEAN
    /\ \E enableWboit \in BOOLEAN, supported \in BOOLEAN, w \in Dims, h \in Dims :
          /\ wboit = [exists |-> enableWboit,
                      enabled |-> WboitPassEnabled(enableWboit, supported)]
          /\ size = ConstructedSize(w, h, enableWboit)
          /\ lastCall = [name |-> "constructor", to |-> <<w, h>>, changed |-> FALSE,
                         calls |-> <<>>]
    /\ objId = ConstructedId
    /\ refs = [r \in DOMAIN RefTarget |-> ConstructedId[RefTarget[r]]]
    /\ pc = "idle"
    /\ frame = NoFrame
    /\ view = "none"
    /\ gpu = [bound |-> "drawTarget",
              depthAtt |-> [fb \in {"colorTarget", "postprocessing.target"} |-> "renderbuffer"],
              gl |-> UnknownState,
              content |-> [t \in Textures |-> {Old}],
              log |-> <<>>, att |-> <<>>]
    /\ frameLog = <<>>

Init == DrawPassInit /\ outlines = OutlinesIdle /\ ntc = NtcIdle

(***************************************************************************)
(* setSize(width, height)                                                   *)
(***************************************************************************)
\* The member of Sized each call of setSize gives the new dimensions to.
Resizes(call) ==
    CASE call = "colorTarget.setSize" -> "colorTarget"
      [] call = "depthTarget.setSize" -> "depthTarget"
      [] call = "depthTargetPrimitives.setSize" -> "depthPrimitives"
      [] call = "depthTexturePrimitives.define" -> "depthPrimitives"
      [] call = "depthTargetVolumes.setSize" -> "depthVolumes"
      [] call = "depthTextureVolumes.define" -> "depthVolumes"
      [] call = "depthMerge.uTexSize.update" -> "depthMerge.uTexSize"
      [] call = "copyFboTarget.uTexSize.update" -> "copyFboTarget.uTexSize"
      [] call = "copyFboPostprocessing.uTexSize.update" -> "copyFboPostprocessing.uTexSize"
      [] call = "wboit.setSize" -> "wboit"
      [] call = "postprocessing.setSize" -> "postprocessing"
      [] call = "fxaa.setSize" -> "fxaa"

\* Variant: the depth-merge uniform is forgotten on resize.
SetSizeCallsNoMerge(width, height) ==
    IF width # size["colorTarget"][1] \/ height # size["colorTarget"][2]
    THEN <<"colorTarget.setSize", "depthTarget.setSize">>
         \o (IF packedDepth THEN <<"depthTargetPrimitives.setSize">>
                            ELSE <<"depthTexturePrimitives.define">>)
         \o (IF packedDepth THEN <<"depthTargetVolumes.setSize">>
                            ELSE <<"depthTextureVolumes.define">>)
         \o <<"copyFboTarget.uTexSize.update", "copyFboPostprocessing.uTexSize.update">>
         \o (IF wboitEnabled THEN <<"wboit.setSize">> ELSE <<>>)
         \o <<"postprocessing.setSize", "fxaa.setSize">>
    ELSE <<>>

\* Variant: the comparison with the current dimensions is dropped.
SetSizeCallsNoGuard(width, height) ==
    <<"colorTarget.setSize", "depthTarget.setSize">>
    \o (IF packedDepth THEN <<"depthTargetPrimitives.setSize">>
                       ELSE <<"depthTexturePrimitives.define">>)
    \o (IF packedDepth THEN <<"depthTargetVolumes.setSize">>
                       ELSE <<"depthTextureVolumes.define">>)
    \o <<"depthMerge.uTexSize.update", "copyFboTarget.uTexSize.update",
         "copyFboPostprocessing.uTexSize.update">>
    \o (IF wboitEnabled THEN <<"wboit.setSize">> ELSE <<>>)
    \o <<"postprocessing.setSize", "fxaa.setSize">>

\* The calls setSize makes, in order (draw.ts 136-166).
SetSizeCalls(width, height) ==
    IF width # size["colorTarget"][1] \/ height # size["colorTarget"][2]
    THEN <<"colorTarget.setSize", "depthTarget.setSize">>
         \o (IF packedDepth THEN <<"depthTargetPrimitives.setSize">>
                            ELSE <<"depthTexturePrimitives.define">>)
         \o (IF packedDepth THEN <<"depthTargetVolumes.setSize">>
                            ELSE <<"depthTextureVolumes.define">>)
         \o <<"depthMerge.uTexSize.update", "copyFboTarget.uTexSize.update",
              "copyFboPostprocessing.uTexSize.update">>
         \o (IF wboitEnabled THEN <<"wboit.setSize">> ELSE <<>>)
         \o <<"postprocessing.setSize", "fxaa.setSize">>
    ELSE <<>>

SetSize ==
    /\ pc = "idle"
    /\ \E width \in Dims, height \in Dims :
          LET calls == SetSizeCalls(width, height)
              touched == {Resizes(calls[i]) : i \in DOMAIN calls}
          IN  /\ size' = [k \in Sized |-> IF k \in touched THEN <<width, height>>
                                                          ELSE size[k]]
              /\ lastCall' = [name |-> "setSize", to |-> <<width, height>>,
                              changed |-> <<width, height>> # size["colorTarget"],
                              calls |-> calls]
    /\ UNCHANGED <<elsewhere, cfgVars, pc, frame, view, gpu, frameLog>>

(***************************************************************************)
(* GPU operations.  Each takes the GPU record and returns it after the     *)
(* operation; every operation is appended to the log with the framebuffer  *)
(* it acts on and the textures it samples.                                  *)
(***************************************************************************)
Entry(op, arg, reads, fb) == [op |-> op, arg |-> arg, reads |-> reads, fb |-> fb]

\* The texture attached as depth attachment of the bound framebuffer, if any.
DepthTex(g) ==
    IF g.bound \in DOMAIN g.depthAtt THEN g.depthAtt[g.bound] ELSE "renderbuffer"

\* An operation that samples textures is recorded together with the depth
\* attachment the bound framebuffer has while it runs (att has one entry for
\* each such operation, in order).
Logged(g, e) ==
    [g EXCEPT !.log = Append(@, e),
              !.att = IF e.reads = {} THEN @ ELSE Append(@, DepthTex(g))]

\* RenderTarget.bind()
Bind(g, fb) == Logged([g EXCEPT !.bound = fb], Entry("bind", fb, {}, fb))

\* WebGLContext.unbindFramebuffer(): the presentation surface becomes current.
UnbindFramebuffer(g) ==
    Logged([g EXCEPT !.bound = "drawTarget"],
           Entry("unbindFramebuffer", "drawTarget", {}, "drawTarget"))

\* Texture.attachFramebuffer(framebuffer, 'depth'): binds the framebuffer and
\* makes the texture its depth attachment.
AttachFramebuffer(g, tex, fb) ==
    Logged([g EXCEPT !.bound = fb, !.depthAtt[fb] = tex],
           Entry("attachFramebuffer", tex, {}, fb))

Written(g) == {ColorTex(g.bound), DepthTex(g)} \cap Textures

\* A call into the Renderer or into a stage sets the capabilities and masks it
\* needs and leaves them as they are when it returns.
External(g) == [g EXCEPT !.gl = UnknownState]

\* WebGLState.disable(cap) and WebGLState.depthMask(flag).
StateDisable(g, cap) ==
    Logged([g EXCEPT !.gl[cap] = "off"], Entry("state.disable", cap, {}, g.bound))
StateDepthMask(g, flag) ==
    Logged([g EXCEPT !.gl["DEPTH_WRITEMASK"] = IF flag THEN "on" ELSE "off"],
           Entry("state.depthMask", IF flag THEN "true" ELSE "false", {}, g.bound))

\* Renderer.clear(toBackgroundColor): color and depth of the bound framebuffer.
Clear(g) ==
    Logged([External(g) EXCEPT !.content = [t \in Textures |->
                        IF t \in Written(g) THEN {} ELSE g.content[t]]],
           Entry("clear", "color+depth", {}, g.bound))

\* Renderer.clearDepth(): the depth attachment of the bound framebuffer.
ClearDepth(g) ==
    Logged([External(g) EXCEPT !.content = [t \in Textures |->
                        IF t = DepthTex(g) THEN {} ELSE g.content[t]]],
           Entry("clearDepth", "depth", {}, g.bound))

\* A Renderer.render* call: draws a scene into the bound framebuffer, color
\* and depth, sampling the depth texture it is given (none for null).
Draw(g, op, scene, reads) ==
    Logged([External(g) EXCEPT !.content = [t \in Textures |->
                        IF t \in Written(g) THEN g.content[t] \cup {<<op, scene>>}
                                            ELSE g.content[t]]],
           Entry(op, scene, reads, g.bound))

\* What the textures hold when a view starts was not produced by this view.
MarkOld(g) ==
    [g EXCEPT !.content = [t \in Textures |-> {Old}], !.gl = UnknownState, !.log = <<>>,
              !.att = <<>>]

\* PostprocessingPass.render(camera, false, ...): reads the color target and the
\* merged depth, writes its own target.
PostprocessingRender(g) ==
    Logged([External(g) EXCEPT !.bound = "postprocessing.target",
                     !.content["postprocessing.target.texture"] =
                         g.content["colorTarget.texture"]
                         \cup {<<"postprocessing", "colorTarget.texture">>}],
           Entry("postprocessing.render", "postprocessing.target",
                 {"colorTarget.texture", "depthTexture"}, "postprocessing.target"))

\* FxaaPass.render(camera, toDrawingBuffer, props): reads the post-processed
\* target if post-processing is enabled, else the color target; writes the
\* presentation surface or its own target.
FxaaRender(g, toDrawingBuffer, props) ==
    LET input == IF PostprocessingIsEnabled(props)
                 THEN "postprocessing.target.texture" ELSE "colorTarget.texture"
        out == IF toDrawingBuffer THEN "drawTarget" ELSE "fxaa.target"
    IN  Logged([External(g) EXCEPT !.bound = out,
                         !.content[ColorTex(out)] = g.content[input] \cup {<<"fxaa", input>>}],
               Entry("fxaa.render", IF toDrawingBuffer THEN "toDrawingBuffer" ELSE "toTarget",
                     {input}, out))

\* WboitPass.bind(): binds and clears the accumulation buffers.
WboitBind(g) ==
    Logged([External(g) EXCEPT !.bound = "wboit", !.content["wboit.textures"] = {}],
           Entry("wboit.bind", "wboit", {}, "wboit"))

\* WboitPass.render(): blends the accumulated transparency onto the bound target.
WboitRender(g) ==
    Logged([External(g) EXCEPT !.content[ColorTex(g.bound)] =
                                   @ \cup g.content["wboit.textures"]],
           Entry("wboit.render", "resolve", {"wboit.textures"}, g.bound))

\* copyFboTarget.render() / copyFboPostprocessing.render(): the source color
\* replaces what the bound framebuffer holds.
CopyFboRender(g, name, tColor, tDepth) ==
    Logged([g EXCEPT !.content[ColorTex(g.bound)] = g.content[tColor]],
           Entry(name, tColor, {tColor, tDepth}, g.bound))

(***************************************************************************)
(* _depthMerge()                                                            *)
(***************************************************************************)
\* 171-172
DepthMergeBind(g) ==
    Bind(Logged(g, Entry("depthMerge.update", "depthMerge", {}, g.bound)), "depthTarget")

\* 177-180: the clear of the color of the bound target and the merge itself.
DepthMergeDraw(g) ==
    LET c == Logged(Logged([g EXCEPT !.content[ColorTex(g.bound)] = {}],
                           Entry("state.clearColor", "1,1,1,1", {}, g.bound)),
                    Entry("gl.clear", "color", {}, g.bound))
    IN  Logged([c EXCEPT !.content[ColorTex(c.bound)] =
                    c.content["depthTexturePrimitives"] \cup c.content["depthTextureVolumes"]
                    \cup {<<"depthMerge", "depthTexture">>}],
               Entry("depthMerge.render", "depthTexture",
                     {"depthTexturePrimitives", "depthTextureVolumes"}, c.bound))

\* Variant: depth writes are left as the preceding pass set them.
DepthMergeKeepsDepthMask(g) ==
    DepthMergeDraw(
        StateDisable(StateDisable(StateDisable(DepthMergeBind(g), "BLEND"),
                                  "DEPTH_TEST"), "CULL_FACE"))

DepthMerge(g) ==
    DepthMergeDraw(
        StateDepthMask(
            StateDisable(StateDisable(StateDisable(DepthMergeBind(g), "BLEND"),
                                      "DEPTH_TEST"), "CULL_FACE"),
            FALSE))

(***************************************************************************)
(* render(): the frame entry point (draw.ts 323-333)                        *)
(***************************************************************************)
Step(name, arg) == [step |-> name, arg |-> arg]

Render ==
    /\ pc = "idle"
    /\ \E f \in Frames :
          /\ frame' = f
          /\ view' = IF f.stereo THEN "left" ELSE "mono"
    /\ frameLog' = <<Step("setTransparentBackground", <<>>),
                     Step("setDrawingBufferSize", size["colorTarget"])>>
    /\ lastCall' = [name |-> "render", to |-> size["colorTarget"], changed |-> FALSE,
                     calls |-> <<>>]
    /\ pc' = "_render"
    /\ UNCHANGED <<elsewhere, cfgVars, size, gpu>>

(***************************************************************************)
(* _render(): the per-view sequence (draw.ts 276-321)                       *)
(***************************************************************************)
\* Variant: the strategies are dispatched the wrong way round.
StrategySwapped == IF wboitEnabled THEN "blended" ELSE "wboit"

\* The strategy _render dispatches to (283-287).
Strategy == IF wboitEnabled THEN "wboit" ELSE "blended"

\* Variant: _renderBlended is handed the frame's toDrawingBuffer as it is.
BlendedToDrawingBufferAsGiven == frame.toDrawingBuffer

\* The toDrawingBuffer argument _render passes to _renderBlended (286).
BlendedToDrawingBuffer == ~FxaaIsEnabled(frame.props) /\ frame.toDrawingBuffer

\* The arguments of a call of _renderWboit made on its own, outside render():
\* of the frame's arguments it takes only the post-processing properties.
WboitFrames ==
    {f \in Frames : /\ ~f.toDrawingBuffer /\ ~f.stereo
                    /\ ~f.helper.debug /\ ~f.helper.handle /\ ~f.helper.camera}

\* _renderWboit is invoked on its own (183), whatever wboitEnabled is.
InvokeRenderWboit ==
    /\ pc = "idle"
    /\ frame' \in WboitFrames
    /\ view' = "direct"
    /\ lastCall' = [name |-> "_renderWboit", to |-> size["colorTarget"],
                    changed |-> FALSE, calls |-> <<>>]
    /\ pc' = "wboit"
    /\ UNCHANGED <<elsewhere, cfgVars, size, gpu, frameLog>>

RenderView ==
    /\ pc = "_render"
    /\ gpu' = Logged(Logged(MarkOld(gpu), Entry("setViewport", view, {}, "-")),
                     Entry("update", view, {}, "-"))
    /\ frameLog' = Append(frameLog, Step("_render", <<view>>))
    /\ pc' = Strategy
    /\ UNCHANGED <<elsewhere, cfgVars, sizeVars, frame, view>>

(***************************************************************************)
(* _renderBlended() (draw.ts 224-274)                                       *)
(***************************************************************************)
\* 225-235: bind the destination, clear, render the opaque primitives.
BlendedOpaque(g, toDrawingBuffer) ==
    LET dst == IF toDrawingBuffer THEN UnbindFramebuffer(g)
               ELSE LET b == Bind(g, "colorTarget")
                    IN  IF ~packedDepth
                        THEN AttachFramebuffer(b, "depthTexturePrimitives", "colorTarget")
                        ELSE b
    IN  Draw(Clear(dst), "renderBlendedOpaque", "primitives", {})

\* 239-244: the depth-only pass of the primitives.
BlendedDepthPrimitives(g, toDrawingBuffer) ==
    IF ~toDrawingBuffer /\ packedDepth
    THEN Bind(Draw(Clear(Bind(g, "depthTargetPrimitives")),
                   "renderDepth", "primitives", {}),
              "colorTarget")
    ELSE g

\* Variant: the transparent primitives are drawn before the volumes.
BlendedVolumesLate(g, toDrawingBuffer) ==
    IF ~toDrawingBuffer
    THEN LET t == Draw(g, "renderBlendedTransparent", "primitives", {})
             a == IF ~packedDepth
                  THEN ClearDepth(AttachFramebuffer(t, "depthTextureVolumes", "colorTarget"))
                  ELSE t
             v == Draw(a, "renderBlendedVolume", "volumes", {"depthTexturePrimitives"})
             d == IF packedDepth
                  THEN Bind(Draw(Clear(Bind(v, "depthTargetVolumes")),
                                 "renderDepth", "volumes", {"depthTexturePrimitives"}),
                            "colorTarget")
                  ELSE v
         IN  IF ~packedDepth
             THEN AttachFramebuffer(d, "depthTexturePrimitives", "colorTarget")
             ELSE d
    ELSE g

\* Variant: the volumes are drawn while the depth of the primitives is still
\* the depth attachment of the color target.
BlendedVolumesOnPrimitiveDepth(g, toDrawingBuffer) ==
    IF ~toDrawingBuffer
    THEN LET v == Draw(g, "renderBlendedVolume", "volumes", {"depthTexturePrimitives"})
             d == IF packedDepth
                  THEN Bind(Draw(Clear(Bind(v, "depthTargetVolumes")),
                                 "renderDepth", "volumes", {"depthTexturePrimitives"}),
                            "colorTarget")
                  ELSE v
         IN  IF ~packedDepth
             THEN AttachFramebuffer(d, "depthTexturePrimitives", "colorTarget")
             ELSE d
    ELSE g

\* 247-265: direct-volume rendering and the depth-only pass of the volumes.
BlendedVolumes(g, toDrawingBuffer) ==
    IF ~toDrawingBuffer
    THEN LET a == IF ~packedDepth
                  THEN ClearDepth(AttachFramebuffer(g, "depthTextureVolumes", "colorTarget"))
                  ELSE g
             v == Draw(a, "renderBlendedVolume", "volumes", {"depthTexturePrimitives"})
             d == IF packedDepth
                  THEN Bind(Draw(Clear(Bind(v, "depthTargetVolumes")),
                                 "renderDepth", "volumes", {"depthTexturePrimitives"}),
                            "colorTarget")
                  ELSE v
         IN  IF ~packedDepth
             THEN AttachFramebuffer(d, "depthTexturePrimitives", "colorTarget")
             ELSE d
    ELSE g

\* 267: the transparent primitives.
BlendedTransparent(g) == Draw(g, "renderBlendedTransparent", "primitives", {})

\* 270-273: the depth merge and the rebind of the color target.
BlendedMerge(g, toDrawingBuffer) ==
    IF ~toDrawingBuffer THEN Bind(DepthMerge(g), "colorTarget") ELSE g

GpuStep(from, to, g) ==
    /\ pc = from
    /\ gpu' = g
    /\ pc' = to
    /\ UNCHANGED <<elsewhere, cfgVars, sizeVars, frame, view, frameLog>>

RenderBlended1 ==
    GpuStep("blended", "blended.depthPrimitives",
            BlendedOpaque(gpu, BlendedToDrawingBuffer))
RenderBlended2 ==
    GpuStep("blended.depthPrimitives", "blended.volumes",
            BlendedDepthPrimitives(gpu, BlendedToDrawingBuffer))
RenderBlended3 ==
    GpuStep("blended.volumes", "blended.transparent",
            BlendedVolumes(gpu, BlendedToDrawingBuffer))
RenderBlended4 ==
    GpuStep("blended.transparent", "blended.merge", BlendedTransparent(gpu))
RenderBlended5 ==
    GpuStep("blended.merge", "helpers", BlendedMerge(gpu, BlendedToDrawingBuffer))

(***************************************************************************)
(* _renderWboit() (draw.ts 183-222)                                         *)
(***************************************************************************)
\* 186-187
WboitClear(g) == Clear(Bind(g, "colorTarget"))

\* 190-193
WboitOpaquePrimitives(g) ==
    Draw(ClearDepth(Bind(AttachFramebuffer(g, "depthTexturePrimitives", "colorTarget"),
                         "colorTarget")),
         "renderWboitOpaque", "primitives", {})

\* Variant: the volumes are drawn over whatever depth the volume texture held.
WboitOpaqueVolumesStale(g) ==
    Draw(Bind(AttachFramebuffer(g, "depthTextureVolumes", "colorTarget"), "colorTarget"),
         "renderWboitOpaque", "volumes", {"depthTexturePrimitives"})

\* 196-199
WboitOpaqueVolumes(g) ==
    Draw(ClearDepth(Bind(AttachFramebuffer(g, "depthTextureVolumes", "colorTarget"),
                         "colorTarget")),
         "renderWboitOpaque", "volumes", {"depthTexturePrimitives"})

\* Variant: post-processing is run after the transparent content is accumulated.
WboitTransparentFirst(g, props) ==
    IF PostprocessingIsEnabled(props)
    THEN PostprocessingRender(
            Draw(Draw(WboitBind(g), "renderWboitTransparent", "primitives", {"depthTexture"}),
                 "renderWboitTransparent", "volumes", {"depthTexture"}))
    ELSE g

\* 204-206
WboitPostprocessing(g, props) ==
    IF PostprocessingIsEnabled(props) THEN PostprocessingRender(g) ELSE g

\* 209-211
WboitTransparent(g) ==
    Draw(Draw(WboitBind(g), "renderWboitTransparent", "primitives", {"depthTexture"}),
         "renderWboitTransparent", "volumes", {"depthTexture"})

\* Variant: the resolve always goes to the color target.
WboitResolveToColor(g, props) ==
    WboitRender(Bind(AttachFramebuffer(g, "depthTexturePrimitives", "colorTarget"),
                     "colorTarget"))

\* 214-221
WboitResolve(g, props) ==
    LET t == IF PostprocessingIsEnabled(props) THEN "postprocessing.target"
                                              ELSE "colorTarget"
    IN  WboitRender(Bind(AttachFramebuffer(g, "depthTexturePrimitives", t), t))

\* Variant: the precondition is tested after the color target is cleared.
RenderWboit0ThrowsLate ==
    /\ pc = "wboit"
    /\ gpu' = WboitClear(gpu)
    /\ pc' = IF ~wboitEnabled THEN "error: expected wboit to be enabled"
             ELSE "wboit.opaquePrimitives"
    /\ UNCHANGED <<elsewhere, cfgVars, sizeVars, frame, view, frameLog>>

\* 184: the precondition of _renderWboit.
RenderWboit0 ==
    /\ pc = "wboit"
    /\ IF ~wboitEnabled
       THEN pc' = "error: expected wboit to be enabled" /\ gpu' = gpu
       ELSE pc' = "wboit.opaquePrimitives" /\ gpu' = WboitClear(gpu)
    /\ UNCHANGED <<elsewhere, cfgVars, sizeVars, frame, view, frameLog>>
RenderWboit1 ==
    GpuStep("wboit.opaquePrimitives", "wboit.opaqueVolumes", WboitOpaquePrimitives(gpu))
RenderWboit2 ==
    GpuStep("wboit.opaqueVolumes", "wboit.depthMerge", WboitOpaqueVolumes(gpu))
RenderWboit3 ==
    GpuStep("wboit.depthMerge", "wboit.postprocessing", DepthMerge(gpu))
RenderWboit4 ==
    GpuStep("wboit.postprocessing", "wboit.transparent",
            WboitPostprocessing(gpu, frame.props))
RenderWboit5 ==
    GpuStep("wboit.transparent", "wboit.resolve", WboitTransparent(gpu))
\* 221: the resolve; the strategy returns to _render, or to whoever invoked it.
RenderWboit6 ==
    GpuStep("wboit.resolve", IF view = "direct" THEN "returned" ELSE "helpers",
            WboitResolve(gpu, frame.props))

(***************************************************************************)
(* _render(), after the strategy (draw.ts 289-321)                          *)
(***************************************************************************)
\* 289-293
HelperTarget(props) ==
    IF PostprocessingIsEnabled(props) THEN "postprocessing.target" ELSE "colorTarget"

\* Variant: the handle helper is rendered before the debug helper.
HelpersHandleFirst(g, helper) ==
    LET h == IF helper.handle THEN Draw(g, "renderBlended", "helper.handle", {}) ELSE g
        d == IF helper.debug
             THEN Draw(Logged(h, Entry("syncVisibility", "debug", {}, h.bound)),
                       "renderBlended", "helper.debug", {})
             ELSE h
    IN  IF helper.camera
        THEN Draw(Logged(Logged(d, Entry("helper.camera.update", "camera", {}, d.bound)),
                         Entry("update", "helper.camera", {}, d.bound)),
                  "renderBlended", "helper.camera", {})
        ELSE d

\* 295-306
Helpers(g, helper) ==
    LET d == IF helper.debug
             THEN Draw(Logged(g, Entry("syncVisibility", "debug", {}, g.bound)),
                       "renderBlended", "helper.debug", {})
             ELSE g
        h == IF helper.handle THEN Draw(d, "renderBlended", "helper.handle", {}) ELSE d
    IN  IF helper.camera
        THEN Draw(Logged(Logged(h, Entry("helper.camera.update", "camera", {}, h.bound)),
                         Entry("update", "helper.camera", {}, h.bound)),
                  "renderBlended", "helper.camera", {})
        ELSE h

\* Variant: the copy to the presentation surface is not skipped when the
\* antialiasing stage has already produced the output.
FinalCopyAlways(g, toDrawingBuffer, props) ==
    LET a == IF FxaaIsEnabled(props) THEN FxaaRender(g, toDrawingBuffer, props) ELSE g
    IN  IF toDrawingBuffer
        THEN LET b == Bind(a, "drawTarget")
             IN  IF PostprocessingIsEnabled(props)
                 THEN CopyFboRender(b, "copyFboPostprocessing.render",
                                    "postprocessing.target.texture", "depthTexture")
                 ELSE CopyFboRender(b, "copyFboTarget.render",
                                    "colorTarget.texture", "depthTexture")
        ELSE a

\* 308-318
Final(g, toDrawingBuffer, props) ==
    IF FxaaIsEnabled(props)
    THEN FxaaRender(g, toDrawingBuffer, props)
    ELSE IF toDrawingBuffer
         THEN LET b == Bind(g, "drawTarget")
              IN  IF PostprocessingIsEnabled(props)
                  THEN CopyFboRender(b, "copyFboPostprocessing.render",
                                     "postprocessing.target.texture", "depthTexture")
                  ELSE CopyFboRender(b, "copyFboTarget.render",
                                     "colorTarget.texture", "depthTexture")
         ELSE g

(***************************************************************************)
(* getColorTarget(postprocessingProps) (draw.ts 335-342)                    *)
(***************************************************************************)
getColorTarget(props) ==
    IF FxaaIsEnabled(props) THEN "fxaa.target"
    ELSE IF PostprocessingIsEnabled(props) THEN "postprocessing.target"
    ELSE "colorTarget"

RenderHelpers ==
    GpuStep("helpers", "final", Helpers(Bind(gpu, HelperTarget(frame.props)), frame.helper))

\* Variant: _render returns without flushing when it has neither antialiased
\* nor copied.
RenderFinalReturnsEarly ==
    GpuStep("final",
            IF FxaaIsEnabled(frame.props) \/ frame.toDrawingBuffer THEN "flush" ELSE "done",
            Final(gpu, frame.toDrawingBuffer, frame.props))

RenderFinal ==
    GpuStep("final", "flush", Final(gpu, frame.toDrawingBuffer, frame.props))

\* Variant: render() runs the per-view sequence once, whatever the camera is.
FlushOnce ==
    /\ pc = "flush"
    /\ gpu' = Logged(gpu, Entry("flush", view, {}, gpu.bound))
    /\ frameLog' = Append(frameLog, Step("flush", <<view>>))
    /\ view' = view /\ pc' = "done"
    /\ UNCHANGED <<elsewhere, cfgVars, sizeVars, frame>>

\* 320, and the return to render() (327-332).
Flush ==
    /\ pc = "flush"
    /\ gpu' = Logged(gpu, Entry("flush", view, {}, gpu.bound))
    /\ frameLog' = Append(frameLog, Step("flush", <<view>>))
    /\ IF view = "left"
       THEN view' = "right" /\ pc' = "_render"
       ELSE view' = view /\ pc' = "done"
    /\ UNCHANGED <<elsewhere, cfgVars, sizeVars, frame>>

\* render() returns: the pass is idle again and the record of the frame is
\* dropped; what the textures hold is from now on left over from that frame.
\* The same when a call of _renderWboit made on its own returns.
Return ==
    /\ pc \in {"done", "returned"}
    /\ pc' = "idle"
    /\ frame' = NoFrame
    /\ view' = "none"
    /\ gpu' = MarkOld(gpu)
    /\ frameLog' = <<>>
    /\ UNCHANGED <<elsewhere, cfgVars, sizeVars>>

Next ==
    \/ SetSize
    \/ Render
    \/ InvokeRenderWboit
    \/ RenderView
    \/ RenderBlended1 \/ RenderBlended2 \/ RenderBlended3 \/ RenderBlended4
    \/ RenderBlended5
    \/ RenderWboit0 \/ RenderWboit1 \/ RenderWboit2 \/ RenderWboit3
    \/ RenderWboit4 \/ RenderWboit5 \/ RenderWboit6
    \/ RenderHelpers
    \/ RenderFinal
    \/ Flush
    \/ Return

Spec == Init /\ [][Next]_vars

\* The positions of the pass; at every one but "idle" a call is in progress
\* and exactly one step above is waiting to be taken.
Positions ==
    {"idle", "_render", "blended", "blended.depthPrimitives", "blended.volumes",
     "blended.transparent", "blended.merge", "wboit", "wboit.opaquePrimitives",
     "wboit.opaqueVolumes", "wboit.depthMerge", "wboit.postprocessing",
     "wboit.transparent", "wboit.resolve", "helpers", "final", "flush", "done",
     "returned"}

\* render() and the methods it calls are synchronous code on one thread: a
\* call in progress always executes its next statement, which moves the pass
\* to another position.  Only the calls made from outside (setSize, render)
\* are at the caller's discretion.
Advance == pc \in Positions \ {"idle"} /\ pc' \in Positions /\ pc' # pc

FairSpec == Spec /\ WF_pc(Advance)

(***************************************************************************)
(* The outline shader run over a depth texture: one draw call evaluates     *)
(* main() for every fragment.  The draw pass stays as constructed.          *)
(***************************************************************************)
drawPassVars == <<packedDepth, wboit, size, objId, refs, lastCall, pc, frame, view,
                  gpu, frameLog>>

OutlinesInit ==
    /\ DrawPassInit
    /\ ~packedDepth /\ ~wboit.exists /\ size["colorTarget"] = <<1, 1>>
    /\ outlines \in [tDepth : [Pixels -> Depths],
                      dOrthographic : BOOLEAN,
                      uMaxPossibleViewZDiff : {MaxZDiff},
                      drawn : {FALSE},
                      fragColor : {[p \in Pixels |-> OutlineStart]}]
    /\ ntc = NtcIdle

OutlinesRender ==
    /\ ~outlines.drawn
    /\ outlines' = [outlines EXCEPT !.fragColor = [p \in Pixels |-> main(outlines, p)],
                                    !.drawn = TRUE]
    /\ UNCHANGED <<drawPassVars, ntc>>

OutlinesSpec == OutlinesInit /\ [][OutlinesRender]_vars

\* An iterator is constructed over a unit, with or without NtC data.
NtcInit ==
    /\ DrawPassInit
    /\ ~packedDepth /\ ~wboit.exists /\ size["colorTarget"] = <<1, 1>>
    /\ outlines = OutlinesIdle
    /\ \E chains \in Units :
          \E gaps \in SUBSET ResiduesOf(chains) :
             \E data \in {[present |-> FALSE, steps |-> {}]}
                         \cup [present : {TRUE}, steps : SUBSET ResiduesOf(chains)] :
                ntc = Constructed(chains, gaps, data)

\* The caller's loop: move() is called while hasNext is true.
NtcMove ==
    /\ hasNext(ntc)
    /\ \E undef \in BOOLEAN : ntc' = move(ntc, undef)
    /\ UNCHANGED <<drawPassVars, outlines>>

NtcSpec == NtcInit /\ [][NtcMove]_vars

(***************************************************************************)
(* Reading the log of the current view.                                     *)
(***************************************************************************)
Log == gpu.log
At(op) == {i \in DOMAIN Log : Log[i].op = op}
AtScene(op, scene) == {i \in DOMAIN Log : Log[i].op = op /\ Log[i].arg = scene}
Count(op) == Cardinality(At(op))

\* The strategy of the current view has run to its end and nothing after it has.
StrategyDone == pc = "helpers"
\* The current view has run up to its flush.
ViewDone == pc \in {"flush", "done"}
InView == pc \notin {"idle", "_render"}

WboitOps == {"wboit.bind", "renderWboitOpaque", "renderWboitTransparent", "wboit.render"}
BlendedOps == {"renderBlendedOpaque", "renderBlendedVolume", "renderBlendedTransparent"}

(***************************************************************************)
(* C1: per view exactly one of the two strategies runs, chosen by           *)
(* wboitEnabled: with wboitEnabled false no WBOIT operation is ever issued, *)
(* with wboitEnabled true none of renderBlendedOpaque / Volume /            *)
(* Transparent is; and once the strategy is over, the chosen one has run.   *)
(***************************************************************************)
C1_StrategiesExclusive ==
    /\ ~wboitEnabled => \A i \in DOMAIN Log : Log[i].op \notin WboitOps
    /\ wboitEnabled => \A i \in DOMAIN Log : Log[i].op \notin BlendedOps
    /\ (StrategyDone \/ ViewDone) =>
          IF wboitEnabled
          THEN Count("wboit.render") = 1 /\ Count("renderWboitOpaque") = 2
          ELSE Count("renderBlendedOpaque") = 1 /\ Count("renderBlendedTransparent") = 1

C1_Witness ==
    /\ pc = "done" /\ wboitEnabled
    /\ Count("wboit.render") = 1 /\ Count("renderBlendedOpaque") = 0

(***************************************************************************)
(* C2: in the blended strategy the operations come in the order: bind the   *)
(* destination, clear color+depth, opaque primitives, (primitive depth-only *)
(* pass), volumes, (volume depth-only pass), transparent primitives, and    *)
(* last the depth merge followed by the rebind of the color target.         *)
(***************************************************************************)
BlendedRank(e) ==
    CASE e.op = "renderBlendedOpaque" -> 1
      [] e.op = "renderDepth" /\ e.arg = "primitives" -> 2
      [] e.op = "renderBlendedVolume" -> 3
      [] e.op = "renderDepth" /\ e.arg = "volumes" -> 4
      [] e.op = "renderBlendedTransparent" -> 5
      [] e.op = "depthMerge.render" -> 6
      [] OTHER -> 0

C2_BlendedOrder ==
    (~wboitEnabled /\ InView) =>
        /\ \A i, j \in DOMAIN Log :
              (i < j /\ BlendedRank(Log[i]) > 0 /\ BlendedRank(Log[j]) > 0)
                  => BlendedRank(Log[i]) < BlendedRank(Log[j])
        /\ StrategyDone =>
              /\ Log[3].op \in {"bind", "unbindFramebuffer"}
              /\ Log[3].arg \in {"colorTarget", "drawTarget"}
              /\ \E i \in At("renderBlendedOpaque") :
                    /\ Log[i - 1].op = "clear" /\ Log[i - 1].fb = Log[3].arg
                    /\ \A k \in 4..(i - 2) : Log[k].op = "attachFramebuffer"
              /\ Count("renderBlendedTransparent") = 1
              /\ At("depthMerge.render") # {} =>
                    /\ Log[Len(Log)] = Entry("bind", "colorTarget", {}, "colorTarget")
                    /\ Log[Len(Log) - 1].op = "depthMerge.render"

C2_Witness ==
    /\ StrategyDone /\ ~wboitEnabled /\ packedDepth
    /\ Count("renderDepth") = 2 /\ Count("renderBlendedVolume") = 1
    /\ Count("depthMerge.render") = 1

(***************************************************************************)
(* C3: in the WBOIT strategy the operations come in the order: bind and     *)
(* clear the color target; attach primitive depth, clear depth, opaque      *)
(* primitives; attach volume depth, clear depth, opaque volumes reading the *)
(* primitive depth; depth merge; post-processing (only when enabled); bind  *)
(* the accumulation buffers; transparent primitives, transparent volumes,   *)
(* both reading the merged depth; resolve.                                  *)
(***************************************************************************)
WboitKey(e) ==
    e.op \in {"clear", "attachFramebuffer", "clearDepth", "renderWboitOpaque",
              "depthMerge.render", "postprocessing.render", "wboit.bind",
              "renderWboitTransparent", "wboit.render"}

Key(e) == <<e.op, e.arg, e.reads>>

KeyLog == LET k == SelectSeq(Log, WboitKey) IN [i \in DOMAIN k |-> Key(k[i])]

C3_WboitOrder ==
    (wboitEnabled /\ StrategyDone) =>
        /\ Log[3] = Entry("bind", "colorTarget", {}, "colorTarget")
        /\ KeyLog =
              <<  <<"clear", "color+depth", {}>>,
                  <<"attachFramebuffer", "depthTexturePrimitives", {}>>,
                  <<"clearDepth", "depth", {}>>,
                  <<"renderWboitOpaque", "primitives", {}>>,
                  <<"attachFramebuffer", "depthTextureVolumes", {}>>,
                  <<"clearDepth", "depth", {}>>,
                  <<"renderWboitOpaque", "volumes", {"depthTexturePrimitives"}>>,
                  <<"depthMerge.render", "depthTexture",
                    {"depthTexturePrimitives", "depthTextureVolumes"}>> >>
              \o (IF PostprocessingIsEnabled(frame.props)
                  THEN << <<"postprocessing.render", "postprocessing.target",
                            {"colorTarget.texture", "depthTexture"}>> >>
                  ELSE <<>>)
              \o <<  <<"wboit.bind", "wboit", {}>>,
                     <<"renderWboitTransparent", "primitives", {"depthTexture"}>>,
                     <<"renderWboitTransparent", "volumes", {"depthTexture"}>>,
                     <<"attachFramebuffer", "depthTexturePrimitives", {}>>,
                     <<"wboit.render", "resolve", {"wboit.textures"}>> >>

C3_Witness ==
    /\ wboitEnabled /\ StrategyDone /\ PostprocessingIsEnabled(frame.props)
    /\ Count("postprocessing.render") = 1 /\ Count("wboit.render") = 1

(***************************************************************************)
(* What a texture holds.                                                    *)
(***************************************************************************)
Holds(t) == gpu.content[t]

\* The opaque and the transparent primitives drawn by the strategy in use.
SceneLayers ==
    IF wboitEnabled
    THEN {<<"renderWboitOpaque", "primitives">>, <<"renderWboitTransparent", "primitives">>}
    ELSE {<<"renderBlendedOpaque", "primitives">>, <<"renderBlendedTransparent", "primitives">>}

\* The texture holds the scene of this view and nothing left over from before.
HoldsScene(t) == SceneLayers \subseteq Holds(t) /\ Old \notin Holds(t)

CopyOps == {"copyFboTarget.render", "copyFboPostprocessing.render"}
AtCopy == {i \in DOMAIN Log : Log[i].op \in CopyOps}

(***************************************************************************)
(* C4: whenever post-processing is enabled, the post-processing stage is    *)
(* applied in the view, after the opaque scene is rendered and the depth is *)
(* merged and before antialiasing or copy, under both strategies.           *)
(***************************************************************************)
C4_PostprocessingApplied ==
    (ViewDone /\ PostprocessingIsEnabled(frame.props)) =>
        \E i \in At("postprocessing.render") :
            /\ \E j \in At("depthMerge.render") : j < i
            /\ \A k \in At("fxaa.render") \cup AtCopy : i < k

(***************************************************************************)
(* C5: with packedDepth, in every view primitive and volume depth are       *)
(* captured by depth-only passes (renderDepth into the primitive and the    *)
(* volume depth target) and the primitive / volume depth textures are never *)
(* attached as a framebuffer depth attachment, whatever the strategy and    *)
(* the toDrawingBuffer / antialiasing / post-processing settings.           *)
(***************************************************************************)
C5_PackedDepthPasses ==
    packedDepth =>
        /\ \A i \in At("attachFramebuffer") :
              Log[i].arg \notin {"depthTexturePrimitives", "depthTextureVolumes"}
        /\ ViewDone =>
              /\ \E i \in AtScene("renderDepth", "primitives") :
                    Log[i].fb = "depthTargetPrimitives"
              /\ \E i \in AtScene("renderDepth", "volumes") :
                    Log[i].fb = "depthTargetVolumes"

(***************************************************************************)
(* C6: after construction and after every setSize(w,h), every owned target  *)
(* and texture and every dependent stage has the dimensions (w,h): color    *)
(* target, canonical depth target, primitive and volume depth resources,    *)
(* the uTexSize of the depth merge and of both copy stages, the             *)
(* post-processing and antialiasing stages, and the WBOIT stage when it is  *)
(* enabled.                                                                 *)
(***************************************************************************)
MustFollow == IF wboitEnabled THEN Sized ELSE Sized \ {"wboit"}

C6_AllSizesAgree == \A k \in MustFollow : size[k] = lastCall.to

C6_Witness ==
    /\ lastCall.name = "setSize" /\ lastCall.changed /\ wboitEnabled
    /\ \A k \in Sized : size[k] = lastCall.to

(***************************************************************************)
(* C7: setSize with the current dimensions makes no call at all; and in     *)
(* every setSize the owned objects are resized in place: each call is a     *)
(* setSize, a define or a uniform update, the identities are those given at *)
(* construction and the references the renderables captured still point at  *)
(* the owned objects.                                                       *)
(***************************************************************************)
InPlaceCalls ==
    {"colorTarget.setSize", "depthTarget.setSize", "depthTargetPrimitives.setSize",
     "depthTexturePrimitives.define", "depthTargetVolumes.setSize",
     "depthTextureVolumes.define", "depthMerge.uTexSize.update",
     "copyFboTarget.uTexSize.update", "copyFboPostprocessing.uTexSize.update",
     "wboit.setSize", "postprocessing.setSize", "fxaa.setSize"}

C7_SetSizeNoOpInPlace ==
    /\ (lastCall.name = "setSize" /\ ~lastCall.changed) => lastCall.calls = <<>>
    /\ \A i \in DOMAIN lastCall.calls : lastCall.calls[i] \in InPlaceCalls
    /\ objId = ConstructedId
    /\ \A r \in DOMAIN RefTarget : refs[r] = objId[RefTarget[r]]

C7_Witness ==
    /\ lastCall.name = "setSize" /\ ~lastCall.changed /\ lastCall.calls = <<>>
    /\ size["colorTarget"] = lastCall.to

(***************************************************************************)
(* C8: getColorTarget returns the antialiasing target whenever antialiasing *)
(* is enabled, the post-processing target only when antialiasing is         *)
(* disabled and post-processing is enabled, else the color target; and the  *)
(* target it returns holds the final output of a render() with the same     *)
(* props and toDrawingBuffer = false.                                       *)
(***************************************************************************)
C8_ColorTargetHoldsOutput ==
    /\ \A p \in [postprocessing : BOOLEAN, antialiasing : BOOLEAN] :
          /\ p.antialiasing => getColorTarget(p) = "fxaa.target"
          /\ (getColorTarget(p) = "postprocessing.target")
                <=> (~p.antialiasing /\ p.postprocessing)
          /\ (~p.antialiasing /\ ~p.postprocessing) => getColorTarget(p) = "colorTarget"
    /\ (pc = "done" /\ ~frame.toDrawingBuffer) =>
          HoldsScene(ColorTex(getColorTarget(frame.props)))

(***************************************************************************)
(* C9: final-stage dispatch per view.  Antialiasing enabled: the            *)
(* antialiasing stage runs exactly once, told whether the output goes to    *)
(* the drawing buffer, and no copy runs.  Antialiasing disabled and         *)
(* toDrawingBuffer: the presentation target is bound and exactly one copy   *)
(* runs, reading the post-processing target when post-processing is enabled *)
(* and the color target otherwise.  Antialiasing disabled and not           *)
(* toDrawingBuffer: neither runs and nothing is written to the presentation *)
(* surface or the antialiasing target.                                      *)
(***************************************************************************)
C9_FinalDispatch ==
    ViewDone =>
        LET aa == FxaaIsEnabled(frame.props)
            pp == PostprocessingIsEnabled(frame.props)
        IN  /\ aa =>
                  /\ Count("fxaa.render") = 1 /\ AtCopy = {}
                  /\ \A i \in At("fxaa.render") :
                        Log[i].arg = IF frame.toDrawingBuffer THEN "toDrawingBuffer"
                                                              ELSE "toTarget"
            /\ (~aa /\ frame.toDrawingBuffer) =>
                  /\ Count("fxaa.render") = 0 /\ Cardinality(AtCopy) = 1
                  /\ \A i \in AtCopy :
                        /\ Log[i].fb = "drawTarget"
                        /\ Log[i - 1] = Entry("bind", "drawTarget", {}, "drawTarget")
                        /\ Log[i].op = IF pp THEN "copyFboPostprocessing.render"
                                             ELSE "copyFboTarget.render"
                        /\ Log[i].arg = IF pp THEN "postprocessing.target.texture"
                                              ELSE "colorTarget.texture"
            /\ (~aa /\ ~frame.toDrawingBuffer) =>
                  /\ Count("fxaa.render") = 0 /\ AtCopy = {}
                  /\ \A i \in DOMAIN Log : Log[i].fb \notin {"drawTarget", "fxaa.target"}
                  /\ Holds("drawingBuffer") = {Old}
                  /\ Holds("fxaa.target.texture") = {Old}

C9_Witness ==
    /\ pc = "done" /\ ~FxaaIsEnabled(frame.props) /\ frame.toDrawingBuffer
    /\ PostprocessingIsEnabled(frame.props)
    /\ Count("copyFboPostprocessing.render") = 1

(***************************************************************************)
(* C10: with WBOIT disabled, toDrawingBuffer, antialiasing and              *)
(* post-processing disabled, after render() the presentation surface holds  *)
(* the blended result of this frame: the target the copy stage reads holds  *)
(* the opaque and transparent primitives rendered in this render() call.    *)
(***************************************************************************)
C10_CopySourceIsThisFrame ==
    (/\ pc = "done" /\ ~wboitEnabled /\ frame.toDrawingBuffer
     /\ ~FxaaIsEnabled(frame.props) /\ ~PostprocessingIsEnabled(frame.props)) =>
        /\ Cardinality(AtCopy) = 1
        /\ \A i \in AtCopy : HoldsScene(Log[i].arg)
        /\ HoldsScene("drawingBuffer")

(***************************************************************************)
(* C11: _renderWboit invoked while WBOIT is not active raises "expected     *)
(* wboit to be enabled" at once: at the error no operation has been issued  *)
(* and no texture or step of a frame has been touched.  It is the only      *)
(* error position of the pass, and it is never reached from render(), which *)
(* enters _renderWboit only with wboitEnabled true.                         *)
(***************************************************************************)
ExpectedWboit == "error: expected wboit to be enabled"
InRender == view \in {"left", "right", "mono"}

C11_WboitPrecondition ==
    /\ pc \in Positions \cup {ExpectedWboit}
    /\ pc = ExpectedWboit =>
          /\ ~wboitEnabled /\ view = "direct"
          /\ Log = <<>> /\ frameLog = <<>>
          /\ \A t \in Textures : gpu.content[t] = {Old}
    /\ (view = "direct" /\ ~wboitEnabled) => pc \in {"wboit", ExpectedWboit}
    /\ InRender => pc # ExpectedWboit
    /\ (InRender /\ pc = "wboit") => wboitEnabled

\* _renderWboit was invoked on its own on a pass built with WBOIT requested
\* but not supported, and has raised the error.
C11_Witness ==
    /\ pc = ExpectedWboit /\ view = "direct"
    /\ wboit.exists /\ ~wboit.enabled
    /\ PostprocessingIsEnabled(frame.props)

(***************************************************************************)
(* C12: a frame, once begun, runs to completion.  Every call of render(),   *)
(* for every combination of its arguments and of the construction flags,    *)
(* reaches its return; it never reaches an error position; and each         *)
(* per-view render ends with the flush as its last operation: when _render  *)
(* has returned (to start the right view, or to end the frame) the last     *)
(* operation of the view is its one flush.                                  *)
(***************************************************************************)
LastOp == IF Log = <<>> THEN "none" ELSE Log[Len(Log)].op
ViewReturned == InRender /\ (pc = "done" \/ (pc = "_render" /\ view = "right"))

C12_EndsWithFlush ==
    /\ InRender => pc \in Positions \ {"returned"}
    /\ ViewReturned => LastOp = "flush" /\ Count("flush") = 1
    /\ (InRender /\ ~ViewReturned) => Count("flush") = 0

C12_FrameCompletes ==
    /\ [](C12_EndsWithFlush)
    /\ InRender ~> (pc = "done")

\* A stereo frame under WBOIT with every stage and helper enabled has returned.
C12_Witness ==
    /\ pc = "done" /\ frame.stereo /\ wboitEnabled /\ LastOp = "flush"
    /\ frame.toDrawingBuffer /\ FxaaIsEnabled(frame.props)
    /\ PostprocessingIsEnabled(frame.props)
    /\ frame.helper.debug /\ frame.helper.handle /\ frame.helper.camera

(***************************************************************************)
(* C13: render() first sets the transparent-background flag and reports the *)
(* size of the color target as drawing-buffer size, then runs the per-view  *)
(* sequence: for a stereo camera exactly twice, left then right, the left   *)
(* pass complete (viewport, strategy, helper target, flush) before the      *)
(* right one begins; for a mono camera exactly once.  A stereo frame so     *)
(* flushes exactly twice and a mono frame exactly once.                     *)
(***************************************************************************)
FramePrologue ==
    <<Step("setTransparentBackground", <<>>),
      Step("setDrawingBufferSize", size["colorTarget"])>>
ViewSteps(v) == <<Step("_render", <<v>>), Step("flush", <<v>>)>>
Flushes == Cardinality({i \in DOMAIN frameLog : frameLog[i].step = "flush"})
MainOp == IF wboitEnabled THEN "wboit.render" ELSE "renderBlendedTransparent"
\* The log of the view that has just returned is a whole pass for camera v.
CompletePass(v) ==
    /\ Log[1] = Entry("setViewport", v, {}, "-")
    /\ Log[2] = Entry("update", v, {}, "-")
    /\ \E i \in At(MainOp), j \in AtScene("bind", HelperTarget(frame.props)) :
          2 < i /\ i < j /\ j < Len(Log)
    /\ Log[Len(Log)].op = "flush" /\ Log[Len(Log)].arg = v
    /\ \A i \in DOMAIN Log : Log[i].op = "setViewport" => i = 1

C13_ViewsPerFrame ==
    /\ InRender => /\ Len(frameLog) >= 2
                   /\ SubSeq(frameLog, 1, 2) = FramePrologue
    /\ (InRender /\ pc = "_render" /\ view = "right") =>
          /\ frame.stereo
          /\ frameLog = FramePrologue \o ViewSteps("left")
          /\ CompletePass("left")
    /\ (InRender /\ view = "right" /\ pc # "_render") =>
          /\ SubSeq(frameLog, 1, 5) =
                FramePrologue \o ViewSteps("left") \o <<Step("_render", <<"right">>)>>
          /\ Log[1] = Entry("setViewport", "right", {}, "-")
    /\ pc = "done" =>
          IF frame.stereo
          THEN /\ frameLog = FramePrologue \o ViewSteps("left") \o ViewSteps("right")
               /\ CompletePass("right")
               /\ Flushes = 2
          ELSE /\ frameLog = FramePrologue \o ViewSteps("mono")
               /\ CompletePass("mono")
               /\ Flushes = 1

\* A stereo frame has returned after its two passes.
C13_Witness ==
    /\ pc = "done" /\ frame.stereo /\ Flushes = 2
    /\ view = "right" /\ CompletePass("right")

(***************************************************************************)
(* C14: in every per-view render the helpers are rendered after the main    *)
(* strategy has finished and before antialiasing / copy, with renderBlended *)
(* under both strategies, into the post-processing target if                *)
(* post-processing is enabled and into the color target otherwise; a helper *)
(* is rendered iff its isEnabled flag is set, in the order debug, handle,   *)
(* camera gizmo.                                                            *)
(***************************************************************************)
HelperScenes == <<"helper.debug", "helper.handle", "helper.camera">>
DrawOps ==
    {"renderBlended", "renderDepth", "renderWboitOpaque", "renderWboitTransparent"}
    \cup BlendedOps
IsHelperDraw(e) ==
    e.op \in DrawOps /\ e.arg \in {HelperScenes[k] : k \in DOMAIN HelperScenes}
HelperEnabled(scene) ==
    CASE scene = "helper.debug" -> frame.helper.debug
      [] scene = "helper.handle" -> frame.helper.handle
      [] scene = "helper.camera" -> frame.helper.camera
HelperDraws == SelectSeq(Log, IsHelperDraw)
StrategyOps ==
    WboitOps \cup BlendedOps
    \cup {"renderDepth", "depthMerge.render", "postprocessing.render", "clear", "clearDepth"}
FinalOps == {"fxaa.render", "copyFboTarget.render", "copyFboPostprocessing.render", "flush"}
HelpersDone == InRender /\ pc \in {"final", "flush", "done"}

C14_HelpersAfterStrategy ==
    /\ (InView /\ ~HelpersDone) => HelperDraws = <<>>
    /\ HelpersDone =>
          /\ Len(HelperDraws) = Len(SelectSeq(HelperScenes, HelperEnabled))
          /\ \A k \in DOMAIN HelperDraws :
                /\ HelperDraws[k].arg = SelectSeq(HelperScenes, HelperEnabled)[k]
                /\ HelperDraws[k].op = "renderBlended"
                /\ HelperDraws[k].fb = HelperTarget(frame.props)
          /\ \A i \in DOMAIN Log :
                IsHelperDraw(Log[i]) =>
                   /\ \A j \in DOMAIN Log : Log[j].op \in StrategyOps => j < i
                   /\ \A j \in DOMAIN Log : Log[j].op \in FinalOps => i < j

\* All three helpers were rendered after a blended strategy, before the copy
\* of the post-processing target to the presentation surface.
C14_Witness ==
    /\ pc = "flush" /\ ~wboitEnabled
    /\ frame.helper.debug /\ frame.helper.handle /\ frame.helper.camera
    /\ PostprocessingIsEnabled(frame.props)
    /\ Len(HelperDraws) = 3 /\ Count("copyFboPostprocessing.render") = 1

(***************************************************************************)
(* C15: every time the depth merge draws, the canonical depth target is the *)
(* bound target and blending, depth test, face culling and depth writes are *)
(* all disabled, whatever the passes before it left behind, in both         *)
(* strategies.  Nothing touches the capabilities between the draw and the   *)
(* end of _depthMerge (or the rebind of the color target that follows it in *)
(* the blended strategy), so they are read there.                           *)
(***************************************************************************)
MergeJustDrew ==
    \/ LastOp = "depthMerge.render"
    \/ /\ Len(Log) >= 2 /\ Log[Len(Log) - 1].op = "depthMerge.render"
       /\ Log[Len(Log)] = Entry("bind", "colorTarget", {}, "colorTarget")
\* The operation before the depth merge was entered.
BeforeMerge == Log[(CHOOSE i \in At("depthMerge.update") : TRUE) - 1]

C15_DepthMergeState ==
    /\ \A i \in At("depthMerge.render") : Log[i].fb = "depthTarget"
    /\ MergeJustDrew => \A f \in GLFlags : gpu.gl[f] = "off"
    /\ (pc \in {"wboit.postprocessing", "helpers"} /\ Count("depthMerge.render") = 1)
          => MergeJustDrew \/ LastOp = "wboit.render"
    /\ Count("depthMerge.render") <= 1

\* The merge has drawn right after a Renderer call left the capabilities
\* unknown, under WBOIT.
C15_Witness ==
    /\ pc = "wboit.postprocessing" /\ LastOp = "depthMerge.render"
    /\ BeforeMerge.op = "renderWboitOpaque"
    /\ gpu.bound = "depthTarget"

\* The same in the blended strategy, after the transparent primitives.
C15_WitnessBlended ==
    /\ pc = "helpers" /\ ~wboitEnabled /\ MergeJustDrew
    /\ BeforeMerge.op = "renderBlendedTransparent"

(***************************************************************************)
(* C16: in the blended strategy the destination is the presentation surface *)
(* exactly when toDrawingBuffer is true and antialiasing is disabled;       *)
(* otherwise it is the color target, with the primitive depth texture       *)
(* attached as its depth attachment exactly when native depth textures are  *)
(* supported (packedDepth false).  Straight to the presentation surface, no *)
(* volumes are rendered, no depth-only pass runs and the depth merge is not *)
(* invoked; otherwise the volumes are rendered exactly once and the depth   *)
(* merge is invoked exactly once per view, and at the end the primitive     *)
(* depth attachment is back in place and the color target is bound.         *)
(***************************************************************************)
Straight == frame.toDrawingBuffer /\ ~frame.props.antialiasing
OpaqueAt == CHOOSE i \in At("renderBlendedOpaque") : TRUE
\* The attachments made to the color target before the opaque primitives.
AttachedBeforeOpaque ==
    {Log[i].arg : i \in {j \in At("attachFramebuffer") :
                            j < OpaqueAt /\ Log[j].fb = "colorTarget"}}

C16_BlendedDestination ==
    (InRender /\ ~wboitEnabled /\ StrategyDone) =>
       /\ Count("renderBlendedOpaque") = 1
       /\ \A i \in DOMAIN Log :
             Log[i].op \in BlendedOps =>
                Log[i].fb = IF Straight THEN "drawTarget" ELSE "colorTarget"
       /\ IF Straight
          THEN /\ Log[3] = Entry("unbindFramebuffer", "drawTarget", {}, "drawTarget")
               /\ Count("renderBlendedVolume") = 0
               /\ Count("renderDepth") = 0
               /\ Count("depthMerge.render") = 0
               /\ Count("attachFramebuffer") = 0
               /\ gpu.bound = "drawTarget"
          ELSE /\ Log[3] = Entry("bind", "colorTarget", {}, "colorTarget")
               /\ AttachedBeforeOpaque =
                     IF packedDepth THEN {} ELSE {"depthTexturePrimitives"}
               /\ Count("renderBlendedVolume") = 1
               /\ Count("depthMerge.render") = 1
               /\ gpu.depthAtt["colorTarget"] =
                     IF packedDepth THEN "renderbuffer" ELSE "depthTexturePrimitives"
               /\ gpu.bound = "colorTarget"
               /\ Log[Len(Log)] = Entry("bind", "colorTarget", {}, "colorTarget")

\* toDrawingBuffer is set but antialiasing is on: the blended strategy has
\* rendered into the color target, volumes and depth merge included, and has
\* put the primitive depth texture back after the volumes used their own.
C16_Witness ==
    /\ InRender /\ ~wboitEnabled /\ StrategyDone /\ ~packedDepth
    /\ frame.toDrawingBuffer /\ frame.props.antialiasing
    /\ Count("depthMerge.render") = 1
    /\ \E i \in AtScene("attachFramebuffer", "depthTextureVolumes") :
          \E j \in AtScene("attachFramebuffer", "depthTexturePrimitives") : i < j
    /\ gpu.depthAtt["colorTarget"] = "depthTexturePrimitives"

\* The blended strategy has drawn straight to the presentation surface.
C16_WitnessStraight ==
    /\ InRender /\ ~wboitEnabled /\ StrategyDone /\ Straight
    /\ Count("renderBlendedTransparent") = 1 /\ gpu.bound = "drawTarget"

(***************************************************************************)
(* C17: in the WBOIT strategy the resolve is invoked exactly once per view, *)
(* as the last operation of the strategy and after both transparent         *)
(* accumulation renders; when it runs, the bound target is the              *)
(* post-processing target if post-processing is enabled and the color       *)
(* target otherwise, with the primitive depth texture as the depth          *)
(* attachment of that same target; and the helpers are then rendered into   *)
(* the target the resolve wrote to.                                         *)
(***************************************************************************)
ResolveTarget ==
    IF frame.props.postprocessing THEN "postprocessing.target" ELSE "colorTarget"
ResolveAt == CHOOSE i \in At("wboit.render") : TRUE
WboitStrategyOver == pc \in {"helpers", "final", "flush", "done", "returned"}

C17_ResolveLast ==
    /\ (wboitEnabled /\ InView /\ ~WboitStrategyOver) => Count("wboit.render") = 0
    /\ (wboitEnabled /\ pc \in {"helpers", "returned"}) =>
          /\ LastOp = "wboit.render"
          /\ gpu.bound = ResolveTarget
          /\ gpu.depthAtt[ResolveTarget] = "depthTexturePrimitives"
    /\ (wboitEnabled /\ WboitStrategyOver) =>
          /\ Count("wboit.render") = 1
          /\ Log[ResolveAt].fb = ResolveTarget
          /\ Log[ResolveAt - 1] = Entry("bind", ResolveTarget, {}, ResolveTarget)
          /\ Log[ResolveAt - 2] =
                Entry("attachFramebuffer", "depthTexturePrimitives", {}, ResolveTarget)
          /\ Count("renderWboitTransparent") = 2
          /\ \A i \in At("renderWboitTransparent") : i < ResolveAt
          /\ \A i \in DOMAIN Log :
                (Log[i].op \in WboitOps \cup {"depthMerge.render", "postprocessing.render"})
                   => i <= ResolveAt
          /\ \A i \in DOMAIN Log : IsHelperDraw(Log[i]) => Log[i].fb = Log[ResolveAt].fb

\* Under WBOIT with post-processing, the resolve has written to the
\* post-processing target and all three helpers were rendered into it.
C17_Witness ==
    /\ wboitEnabled /\ pc = "final" /\ frame.props.postprocessing
    /\ Log[ResolveAt].fb = "postprocessing.target"
    /\ Len(HelperDraws) = 3
    /\ gpu.depthAtt["postprocessing.target"] = "depthTexturePrimitives"

(***************************************************************************)
(* Reading what the outline shader was given and what it wrote.             *)
(***************************************************************************)
DepthAt(p) == outlines.tDepth[p]
Marked(p) == outlines.fragColor[p].outline = 0
Foreground == {p \in Pixels : DepthAt(p) < BackgroundDepth}
\* The pixels of the 3x3 neighbourhood of q.
Around(q) ==
    {p \in Pixels : Abs(p[1] - q[1]) <= 1 /\ Abs(p[2] - q[2]) <= 1}
\* The view-space Z of a depth as the claims define it.
SyntheticZ == Frac(uFar + 3 * outlines.uMaxPossibleViewZDiff, 1)
ClaimViewZ(depth) ==
    IF depth >= BackgroundDepth THEN SyntheticZ
    ELSE getViewZ(outlines.dOrthographic, depth)

(***************************************************************************)
(* C18: in a depth image where a single foreground pixel (depth below 0.99) *)
(* is surrounded by background (depth 0.99 or above) and the view-space Z   *)
(* of foreground and background differ by more than maxPossibleViewZDiff,   *)
(* every background pixel of the 3x3 neighbourhood of the foreground pixel  *)
(* is marked as outline (flag 0), under the perspective and under the       *)
(* orthographic reconstruction.                                             *)
(***************************************************************************)
TheForeground == CHOOSE q \in Foreground : TRUE

C18_SilhouetteMarked ==
    (/\ outlines.drawn
     /\ Cardinality(Foreground) = 1
     /\ DiffExceeds(SyntheticZ, getViewZ(outlines.dOrthographic, DepthAt(TheForeground)),
                    outlines.uMaxPossibleViewZDiff))
    => \A p \in Around(TheForeground) \ {TheForeground} : Marked(p)

\* The foreground pixel is the centre one, close to the background in depth,
\* under the orthographic reconstruction:
\* its eight neighbours are marked.
C18_Witness ==
    /\ outlines.drawn /\ outlines.dOrthographic
    /\ outlines.uMaxPossibleViewZDiff = MaxZDiff
    /\ Foreground = {<<1, 1>>} /\ DepthAt(<<1, 1>>) = 98
    /\ Cardinality({p \in Pixels : Marked(p)}) = 8

\* The same under the perspective reconstruction.
C18_WitnessPerspective ==
    /\ outlines.drawn /\ ~outlines.dOrthographic
    /\ Foreground = {<<1, 1>>}
    /\ Cardinality({p \in Pixels : Marked(p)}) = 8

(***************************************************************************)
(* C19: an image of uniform depth, foreground or background, has no outline *)
(* pixel: every pixel outputs outline flag 1 and best occluder depth 1.0.   *)
(***************************************************************************)
Uniform == \A p, q \in Pixels : DepthAt(p) = DepthAt(q)

C19_UniformUnmarked ==
    (outlines.drawn /\ Uniform) =>
       \A p \in Pixels : /\ outlines.fragColor[p].outline = 1
                          /\ outlines.fragColor[p].bestDepth = FarDepth

\* A uniform image of geometry has been drawn.
C19_Witness ==
    /\ outlines.drawn /\ Uniform /\ Foreground = Pixels
    /\ outlines.dOrthographic

\* A uniform image of background has been drawn.
C19_WitnessBackground ==
    /\ outlines.drawn /\ Uniform /\ Foreground = {}

(***************************************************************************)
(* C20: for every pixel, the outline flag is 0 iff some pixel of its 3x3    *)
(* window has |selfViewZ - neighbourViewZ| > maxPossibleViewZDiff and       *)
(* selfDepth > neighbourDepth (a depth of 0.99 or more taking the synthetic *)
(* view-Z far + 3 * maxPossibleViewZDiff), and the best depth recorded is   *)
(* the least depth among those neighbours (1.0 when there is none),         *)
(* whatever the order the window is visited in.  So a foreground pixel is   *)
(* never marked because of a background neighbour.                          *)
(***************************************************************************)
Window(p) == {Texel(p, Offsets[k]) : k \in DOMAIN Offsets}
Occluders(p) ==
    {n \in Window(p) :
        /\ DiffExceeds(ClaimViewZ(DepthAt(p)), ClaimViewZ(DepthAt(n)),
                       outlines.uMaxPossibleViewZDiff)
        /\ DepthAt(p) > DepthAt(n)}
Least(S) == CHOOSE d \in S : \A e \in S : d <= e
\* Other orders of visiting the window: backwards, and x outermost.
Backwards == [k \in DOMAIN Offsets |-> Offsets[Len(Offsets) + 1 - k]]
ColumnWise == [k \in DOMAIN Offsets |-> <<Offsets[k][2], Offsets[k][1]>>]

C20_OutlineIffOccluder ==
    outlines.drawn =>
       \A p \in Pixels :
          LET occluders == Occluders(p)
              out == outlines.fragColor[p]
          IN  /\ out.outline = IF occluders # {} THEN 0 ELSE 1
              /\ out.bestDepth =
                    IF occluders = {} THEN FarDepth
                    ELSE Least({DepthAt(n) : n \in occluders})
              /\ mainIn(outlines, p, Backwards) = out
              /\ mainIn(outlines, p, ColumnWise) = out
              /\ p \in Foreground => occluders \cap (Pixels \ Foreground) = {}

\* A pixel of geometry with a background neighbour and a nearer one of
\* geometry is marked, with the depth of the latter; and a background pixel
\* sees both depths of geometry, the farther one first, and records the nearer.
C20_Witness ==
    /\ outlines.drawn
    /\ DepthAt(<<1, 1>>) = 98 /\ DepthAt(<<0, 0>>) = BackgroundDepth
    /\ DepthAt(<<2, 2>>) = 30
    /\ Marked(<<1, 1>>) /\ outlines.fragColor[<<1, 1>>].bestDepth = 30
    /\ DepthAt(<<0, 1>>) = BackgroundDepth /\ DepthAt(<<0, 2>>) = 30
    /\ outlines.fragColor[<<0, 1>>].bestDepth = 30


\* The two textures the depth merge reads.
MergeInputs == {"depthTexturePrimitives", "depthTextureVolumes"}
\* What each input of the merge is drawn from.
MergeScene(t) == IF t = "depthTexturePrimitives" THEN "primitives" ELSE "volumes"
\* The texture was cleared in this view and a pass of this view drew the scene
\* into it afterwards.
Fresh(t, scene) ==
    /\ Old \notin Holds(t)
    /\ \E tag \in Holds(t) : tag[1] \in DrawOps /\ tag[2] = scene

(***************************************************************************)
(* C21: whenever the depth merge runs (blended or WBOIT, with or without    *)
(* packedDepth, in any view of a frame), each of its two inputs was cleared  *)
(* and then rendered into earlier in the same view, so the merged depth      *)
(* holds nothing left over from a previous view or frame.                    *)
(***************************************************************************)
C21_MergeInputsFresh ==
    /\ MergeJustDrew => \A t \in MergeInputs : Fresh(t, MergeScene(t))
    /\ Count("depthMerge.render") >= 1 =>
          /\ Old \notin Holds("depthTexture")
          /\ \A t \in MergeInputs :
                \E tag \in Holds("depthTexture") : tag[1] \in DrawOps /\ tag[2] = MergeScene(t)

\* The merge has just drawn in the second view of a stereo frame.
C21_Witness ==
    /\ MergeJustDrew /\ view = "right"
    /\ \A t \in MergeInputs : Fresh(t, MergeScene(t))

\* The merge has just drawn under WBOIT with packed depth.
C21_WitnessWboitPacked ==
    /\ MergeJustDrew /\ wboitEnabled /\ packedDepth
    /\ \A t \in MergeInputs : Fresh(t, MergeScene(t))


\* The operations of the view that sample a texture.
Reading == {i \in DOMAIN Log : Log[i].reads # {}}
\* The textures the framebuffer bound during the i-th operation writes to.
Targets(i) ==
    {ColorTex(Log[i].fb), gpu.att[Cardinality({j \in Reading : j <= i})]}
\* The depth inputs of the Renderer calls, the inputs of the merge and of the copies.
ReadsOf(op, scene) ==
    {Log[i].reads : i \in {j \in DOMAIN Log : Log[j].op = op /\ Log[j].arg = scene}}

(***************************************************************************)
(* C22: no operation of a view samples a texture that is, while it runs,    *)
(* the color texture or the depth attachment of the bound framebuffer: the   *)
(* depth input of renderBlendedVolume, renderDepth, renderWboitOpaque and    *)
(* renderWboitTransparent, the two inputs of the depth merge and the color   *)
(* and depth inputs of the copies, under both strategies and both            *)
(* packedDepth settings.                                                     *)
(***************************************************************************)
C22_NoFeedback ==
    /\ Len(gpu.att) = Cardinality(Reading)
    /\ \A i \in Reading : Log[i].reads \cap Targets(i) = {}
    /\ ReadsOf("renderBlendedVolume", "volumes") \subseteq {{"depthTexturePrimitives"}}
    /\ ReadsOf("renderDepth", "volumes") \subseteq {{"depthTexturePrimitives"}}
    /\ ReadsOf("renderWboitOpaque", "volumes") \subseteq {{"depthTexturePrimitives"}}
    /\ ReadsOf("renderWboitTransparent", "primitives") \subseteq {{"depthTexture"}}
    /\ ReadsOf("renderWboitTransparent", "volumes") \subseteq {{"depthTexture"}}
    /\ \A i \in At("depthMerge.render") : Log[i].reads = MergeInputs
    /\ \A i \in AtCopy : "depthTexture" \in Log[i].reads /\ Cardinality(Log[i].reads) = 2

\* A blended view without packed depth has run to its end: the volumes read
\* the depth of the primitives while the depth of the volumes was attached,
\* and the merge read both.
C22_Witness ==
    /\ ~wboitEnabled /\ ~packedDepth /\ pc = "done" /\ At("depthMerge.render") # {}
    /\ \E i \in At("renderBlendedVolume") :
          /\ Log[i].reads = {"depthTexturePrimitives"}
          /\ Targets(i) = {"colorTarget.texture", "depthTextureVolumes"}

\* A WBOIT view has run to its copy with the primitive depth re-attached for
\* the resolve after the transparent passes sampled the merged depth.
C22_WitnessWboit ==
    /\ wboitEnabled /\ AtCopy # {}
    /\ \E i \in At("renderWboitTransparent") : Log[i].reads = {"depthTexture"}
    /\ \E i \in At("wboit.render") : "depthTexturePrimitives" \in Targets(i)


(***************************************************************************)
(* Reading what the segment iterator returned.                              *)
(***************************************************************************)
\* The last move() switched to a new chain and returned a segment.
SwitchedChain == ntc.switched /\ ntc.segment.defined
\* The residues the points of the returned segment were read from in that call.
PointResidues ==
    LET seg == ntc.segment
        names == IF seg.r0 = NoResidue THEN {"p0", "p1", "p2", "p3", "p4", "pP"}
                 ELSE {"p_1", "p0", "p1", "p2", "p3", "p4", "pP"}
    IN  {seg.points[k] : k \in names} \ {NoResidue}
\* The chain the returned segment belongs to.
SegmentChain == ChainOf(ntc.chains, ntc.segment.r1)

(***************************************************************************)
(* C23: the first segment move() returns after switching to a new chain is  *)
(* built with no previous residue: r0 is undefined, firstInChain is true,    *)
(* followsGap is false, and none of its points is read from a residue of    *)
(* the preceding chain.                                                      *)
(***************************************************************************)
C23_ChainSwitchStartsAfresh ==
    SwitchedChain =>
        /\ ntc.segment.r0 = NoResidue
        /\ ntc.segment.firstInChain
        /\ ~ntc.segment.followsGap
        /\ \A r \in PointResidues : ChainOf(ntc.chains, r) = SegmentChain

(***************************************************************************)
(* C24: with move() called only while hasNext is true, chainIt.move() is    *)
(* called only when chainIt.hasNext and residueIt.move() only when          *)
(* residueIt.hasNext, for every arrangement of chains; and without NtC data *)
(* hasNext is false from the start, so nothing is ever advanced by move().  *)
(***************************************************************************)
C24_NeverAdvancesExhausted ==
    /\ \A call \in ntc.calls : call.hasNext
    /\ ~ntc.data.present => ~hasNext(ntc) /\ ntc.moves = 0

====
